---- MODULE Spec2Model ----
(***************************************************************************)
(* The interactive surface of hyperbacked (src/src/gui.rs): the iced       *)
(* Application HyperbackedApp, its update handler, the messages each page  *)
(* of its view can emit, and the background command that calls             *)
(* create_backup.  The engine (crate::backup, crate::passphrase) is not    *)
(* part of gui.rs; its result is modelled from the specification:          *)
(* create_backup validates its input, then returns every share or fails    *)
(* as a whole.  A user message is one the screen rendered from the current *)
(* state can emit; update handles one message at a time.                   *)
(***************************************************************************)
EXTENDS Integers, Sequences, FiniteSets, TLC

(* ---------------------------------------------------------------- bounds *)

\* longest secret / passphrase typed into a text input
MaxStrLen == 2

\* longest label typed into the label input
MaxLabelLen == 1

\* longest secret value and passphrase given to the engine on its own
MaxValueLen == 1

\* largest num_shares given to the engine on its own
MaxTotal == 3

\* largest draw of the engine's random source
MaxRand == 1

(* --------------------------------------------------------------- strings *)

\* characters a text input can hold: one whitespace and one other character
Chars == {" ", "a"}

StringsUpTo(n) == UNION {[1..k -> Chars] : k \in 0..n}

Strings == StringsUpTo(MaxStrLen)

\* a label is passed on untouched, so one character is enough to tell labels apart
Labels == UNION {[1..k -> {"a"}] : k \in 0..MaxLabelLen}

is_whitespace(c) == c = " "

RECURSIVE trim_start(_)
trim_start(s) ==
    IF s = <<>> THEN s
    ELSE IF is_whitespace(Head(s)) THEN trim_start(Tail(s)) ELSE s

RECURSIVE trim_end(_)
trim_end(s) ==
    IF s = <<>> THEN s
    ELSE IF is_whitespace(s[Len(s)]) THEN trim_end(SubSeq(s, 1, Len(s) - 1)) ELSE s

\* str::trim: leading and trailing whitespace removed
trim(s) == trim_end(trim_start(s))

is_empty(s) == Len(s) = 0

(* ----------------------------------------------------------------- types *)

AppPage == {"Welcome", "CreateBackup", "RestoreBackup", "BackupGenerating", "BackupResults"}

Standard == [kind |-> "Standard", min |-> 0, max |-> 0]

Distributed(lo, hi) == [kind |-> "Distributed", min |-> lo, max |-> hi]

\* BackupType::ALL with one entry out of order, as a slip in the table would leave it
BackupType_ALL_Swapped ==
    {Standard, Distributed(2, 3), Distributed(5, 3), Distributed(4, 7)}

\* BackupType::ALL: the entries of the pick list
BackupType_ALL ==
    {Standard, Distributed(2, 3), Distributed(3, 5), Distributed(4, 7)}

\* Option<Vec<BackupShare>>
None == [some |-> FALSE, shares |-> <<>>]

Some(v) == [some |-> TRUE, shares |-> v]

\* Message, one record shape for every variant; unused fields hold a filler
Msg(k, p, s, b, n) == [kind |-> k, page |-> p, str |-> s, btype |-> b, num |-> n]

MsgSwitchPage(p) == Msg("SwitchPage", p, <<>>, Standard, 0)

MsgSecretChanged(s) == Msg("SecretChanged", "Welcome", s, Standard, 0)

MsgPassphraseChanged(s) == Msg("PassphraseChanged", "Welcome", s, Standard, 0)

MsgGenerateSecret == Msg("GenerateSecret", "Welcome", <<>>, Standard, 0)

MsgCreateBackup == Msg("CreateBackup", "Welcome", <<>>, Standard, 0)

MsgLabelChanged(s) == Msg("LabelChanged", "Welcome", s, Standard, 0)

MsgBackupTypeChanged(b) == Msg("BackupTypeChanged", "Welcome", <<>>, b, 0)

MsgSaveBackup(n) == Msg("SaveBackup", "Welcome", <<>>, Standard, n)

MsgEnd == Msg("End", "Welcome", <<>>, Standard, 0)

(* ----------------------------------------------------------------- state *)

VARIABLES
    page, secret, passphrase, label, backup_type, generated_backup, should_exit,
    tasks,          \* futures handed to the executor by Command::perform, not yet run
    mailbox,        \* BackupCompleted messages produced by finished futures
    engine_calls,   \* history: every call made into the engine, with its result
    user_creates,   \* history: number of CreateBackup messages processed
    writes,         \* history: number of assignments to generated_backup
    saved,          \* history: what the last SaveBackup handed to print_pdf
    panicked,       \* an unwrap / expect in update failed
    engine          \* one create_backup / restore_backup round of the engine on its own

vars == <<page, secret, passphrase, label, backup_type, generated_backup, should_exit,
          tasks, mailbox, engine_calls, user_creates, writes, saved, panicked, engine>>

NoSave ==
    [done |-> FALSE, written |-> FALSE, asked |-> 0, number |-> 0, label |-> <<>>, total |-> 0]

\* the engine round before any input is given to it
EngineIdle ==
    [phase |-> "idle", value |-> <<>>, password |-> <<>>,
     config |-> [required_shares |-> 0, num_shares |-> 0], rand |-> 0,
     shares |-> <<>>, picked |-> <<>>, outcome |-> [ok |-> FALSE, err |-> "none", value |-> <<>>]]

AppInit ==
    /\ page = "Welcome"
    /\ secret = <<>>
    /\ passphrase = <<>>
    /\ label = <<>>
    /\ backup_type = Standard
    /\ generated_backup = None
    /\ should_exit = FALSE
    /\ tasks = <<>>
    /\ mailbox = <<>>
    /\ engine_calls = <<>>
    /\ user_creates = 0
    /\ writes = 0
    /\ saved = NoSave
    /\ panicked = FALSE

Init == AppInit /\ engine = EngineIdle

(* ---------------------------------------------------------------- engine *)

\* Result<Vec<BackupShare>, Error>
Ok(v) == [ok |-> TRUE, err |-> "none", shares |-> v]

Err(e) == [ok |-> FALSE, err |-> e, shares |-> <<>>]

\* Result::ok: the error, whatever its kind, becomes None
ok(r) == IF r.ok THEN Some(r.shares) ELSE None

BackupConfig(r, n) == [required_shares |-> r, num_shares |-> n]

\* the configurations create_backup accepts: the threshold range, and 1 of 1 as
\* the minimal non-distributed case
ValidConfig(c) ==
    \/ c.required_shares = 1 /\ c.num_shares = 1
    \/ 2 <= c.required_shares /\ c.required_shares <= c.num_shares /\ c.num_shares <= 255

\* the shares of one backup, numbered 1..n
MakeShares(n) == [i \in 1..n |-> [number |-> i]]

\* create_backup(secrets, config): the outcomes it can return for one secret.
\* It validates first; on valid input it returns every share, or fails as a
\* whole when key derivation, encryption or the random source fails.
create_backup(value, password, config) ==
    IF ~ValidConfig(config) THEN {Err("InvalidConfig")}
    ELSE IF is_empty(value) \/ is_empty(password) THEN {Err("EmptyInput")}
    ELSE {Ok(MakeShares(config.num_shares)), Err("Internal")}

\* gen_passphrase(words): some random string of words, never blank
gen_passphrase(words) == {s \in Strings : ~is_empty(trim(s))}

(* ------------------------------------------------------------------ view *)

\* the runtime stops delivering messages once should_exit() answers true, and a
\* panic in update ends the process
Running == ~should_exit /\ ~panicked

\* welcome_page with the "Create backup" button wired to the create message itself
welcome_page_CreateWired ==
    {MsgCreateBackup, MsgSwitchPage("RestoreBackup")}

welcome_page ==
    {MsgSwitchPage("CreateBackup"), MsgSwitchPage("RestoreBackup")}

\* create_enabled with the two tests joined by "or"
create_enabled_Either == ~is_empty(trim(passphrase)) \/ ~is_empty(trim(secret))

\* the Create button is pressable only with a non-blank passphrase and secret
create_enabled == ~is_empty(trim(passphrase)) /\ ~is_empty(trim(secret))

\* create_backup_page with the Finish button of the results page on it
create_backup_page_WithFinish ==
    {MsgSecretChanged(s) : s \in Strings}
      \cup {MsgPassphraseChanged(s) : s \in Strings}
      \cup {MsgGenerateSecret}
      \cup {MsgBackupTypeChanged(b) : b \in BackupType_ALL}
      \cup {MsgLabelChanged(s) : s \in Labels}
      \cup {MsgSwitchPage("Welcome"), MsgEnd}
      \cup (IF create_enabled THEN {MsgCreateBackup} ELSE {})

create_backup_page ==
    {MsgSecretChanged(s) : s \in Strings}
      \cup {MsgPassphraseChanged(s) : s \in Strings}
      \cup {MsgGenerateSecret}
      \cup {MsgBackupTypeChanged(b) : b \in BackupType_ALL}
      \cup {MsgLabelChanged(s) : s \in Labels}
      \cup {MsgSwitchPage("Welcome")}
      \cup (IF create_enabled THEN {MsgCreateBackup} ELSE {})

\* generating_page with the Back button of the create page left on it
generating_page_WithBack == {MsgSwitchPage("Welcome")}

generating_page == {}

backup_results_page ==
    (IF generated_backup.some /\ Len(generated_backup.shares) > 0
       THEN {MsgSaveBackup(generated_backup.shares[i].number) :
                i \in 1..Len(generated_backup.shares)}
       ELSE {})
      \cup {MsgEnd}

\* screen_of with the wildcard arm falling to the generating page
screen_of_WildcardGenerating(p) ==
    CASE p = "Welcome" -> "welcome_page"
      [] p = "CreateBackup" -> "create_backup_page"
      [] p = "BackupGenerating" -> "generating_page"
      [] p = "BackupResults" -> "backup_results_page"
      [] OTHER -> "generating_page"

\* the page function view picks for a page
screen_of(p) ==
    CASE p = "Welcome" -> "welcome_page"
      [] p = "CreateBackup" -> "create_backup_page"
      [] p = "BackupGenerating" -> "generating_page"
      [] p = "BackupResults" -> "backup_results_page"
      [] OTHER -> "welcome_page"

\* the messages the rendered screen can emit
view ==
    CASE screen_of(page) = "welcome_page" -> welcome_page
      [] screen_of(page) = "create_backup_page" -> create_backup_page
      [] screen_of(page) = "generating_page" -> generating_page
      [] screen_of(page) = "backup_results_page" -> backup_results_page

(* ---------------------------------------------------------------- update *)

\* a user-originated message reaches update only through a widget of the
\* screen on display
Emitted == IF Running THEN view ELSE {}

RemoveAt(q, i) == SubSeq(q, 1, i - 1) \o SubSeq(q, i + 1, Len(q))

SwitchPage(p) ==
    /\ page' = p
    /\ UNCHANGED <<secret, passphrase, label, backup_type, generated_backup, should_exit,
                   tasks, mailbox, engine_calls, user_creates, writes, saved, panicked, engine>>

SecretChanged(s) ==
    /\ secret' = s
    /\ UNCHANGED <<page, passphrase, label, backup_type, generated_backup, should_exit,
                   tasks, mailbox, engine_calls, user_creates, writes, saved, panicked, engine>>

\* PassphraseChanged writing the field of the arm above it
PassphraseChanged_IntoSecret(s) ==
    /\ secret' = s
    /\ UNCHANGED <<page, passphrase, label, backup_type, generated_backup, should_exit,
                   tasks, mailbox, engine_calls, user_creates, writes, saved, panicked, engine>>

PassphraseChanged(s) ==
    /\ passphrase' = s
    /\ UNCHANGED <<page, secret, label, backup_type, generated_backup, should_exit,
                   tasks, mailbox, engine_calls, user_creates, writes, saved, panicked, engine>>

GenerateSecret ==
    /\ passphrase' \in gen_passphrase(6)
    /\ UNCHANGED <<page, secret, label, backup_type, generated_backup, should_exit,
                   tasks, mailbox, engine_calls, user_creates, writes, saved, panicked, engine>>

\* SpawnCreate forgetting the command: the arm falls through to Command::none()
SpawnCreate_None == tasks

\* SpawnCreate with the two captured strings taking each other's place
SpawnCreate_Swapped ==
    Append(tasks, [backup_type |-> backup_type, secret |-> passphrase,
                   passphrase |-> secret])

\* the future Command::perform hands to the executor, with the values it captures
SpawnCreate ==
    Append(tasks, [backup_type |-> backup_type, secret |-> secret,
                   passphrase |-> passphrase])

CreateBackup ==
    /\ page' = "BackupGenerating"
    /\ tasks' = SpawnCreate
    /\ user_creates' = user_creates + 1
    /\ UNCHANGED <<secret, passphrase, label, backup_type, generated_backup, should_exit,
                   mailbox, engine_calls, writes, saved, panicked, engine>>

LabelChanged(s) ==
    /\ label' = s
    /\ UNCHANGED <<page, secret, passphrase, backup_type, generated_backup, should_exit,
                   tasks, mailbox, engine_calls, user_creates, writes, saved, panicked, engine>>

BackupTypeChanged(b) ==
    /\ backup_type' = b
    /\ UNCHANGED <<page, secret, passphrase, label, generated_backup, should_exit,
                   tasks, mailbox, engine_calls, user_creates, writes, saved, panicked, engine>>

required_shares(bt) == IF bt.kind = "Standard" THEN 1 ELSE bt.min

\* num_shares with min copied where max belongs
num_shares_CopiedMin(bt) == IF bt.kind = "Standard" THEN 1 ELSE bt.min

num_shares(bt) == IF bt.kind = "Standard" THEN 1 ELSE bt.max

\* the async block: one call of create_backup, its result turned into the
\* BackupCompleted message
RunCreateTask(i) ==
    /\ Running
    /\ i \in 1..Len(tasks)
    /\ LET t == tasks[i]
           config == BackupConfig(required_shares(t.backup_type), num_shares(t.backup_type))
       IN \E r \in create_backup(t.secret, t.passphrase, config) :
            /\ engine_calls' = Append(engine_calls,
                  [fn |-> "create_backup", value |-> t.secret, password |-> t.passphrase,
                   backup_type |-> t.backup_type, config |-> config, result |-> r])
            /\ mailbox' = Append(mailbox, ok(r))
    /\ tasks' = RemoveAt(tasks, i)
    /\ UNCHANGED <<page, secret, passphrase, label, backup_type, generated_backup,
                   should_exit, user_creates, writes, saved, panicked, engine>>

\* AfterCompleted starting the creation again when the result is a failure
AfterCompleted_Retry(result) ==
    IF result.some THEN tasks
    ELSE Append(tasks, [backup_type |-> backup_type, secret |-> secret,
                        passphrase |-> passphrase])

\* what the BackupCompleted arm adds to the executor's queue: nothing
AfterCompleted(result) == tasks

\* StoredBackup losing the last share of the list
StoredBackup_DropLast(result) ==
    IF result.some
      THEN Some(SubSeq(result.shares, 1, Len(result.shares) - 1))
      ELSE result

\* what the BackupCompleted arm stores
StoredBackup(result) == result

BackupCompleted(i) ==
    /\ Running
    /\ i \in 1..Len(mailbox)
    /\ generated_backup' = StoredBackup(mailbox[i])
    /\ page' = "BackupResults"
    /\ tasks' = AfterCompleted(mailbox[i])
    /\ mailbox' = RemoveAt(mailbox, i)
    /\ writes' = writes + 1
    /\ UNCHANGED <<secret, passphrase, label, backup_type, should_exit, engine_calls,
                   user_creates, saved, panicked, engine>>

\* find taking the number for a position in the list, counted from zero
find_ByPosition(backup, num) == IF num + 1 <= Len(backup) THEN num + 1 ELSE 0

\* Iterator::find: the index of the first share with that number, 0 for none
find(backup, num) ==
    IF \E i \in 1..Len(backup) : backup[i].number = num
      THEN CHOOSE i \in 1..Len(backup) :
             /\ backup[i].number = num
             /\ \A j \in 1..(i - 1) : backup[j].number # num
      ELSE 0

\* what the world around one SaveBackup can do: the dialog is dismissed, the
\* PDF is rendered and written, or rendering or writing fails
SaveOutcomes == {"dismissed", "written", "failed"}

\* file is what the save dialog and the renderer did
SaveBackup(num, file) ==
    /\ IF file = "dismissed" THEN UNCHANGED <<saved, panicked>>
       ELSE IF ~generated_backup.some \/ find(generated_backup.shares, num) = 0
         THEN panicked' = TRUE /\ UNCHANGED saved
         ELSE /\ saved' = [done |-> TRUE,
                           written |-> (file = "written"),
                           asked |-> num,
                           number |-> generated_backup.shares[find(generated_backup.shares, num)].number,
                           label |-> label,
                           total |-> Len(generated_backup.shares)]
              /\ panicked' = (file = "failed")
    /\ UNCHANGED <<page, secret, passphrase, label, backup_type, generated_backup,
                   should_exit, tasks, mailbox, engine_calls, user_creates, writes, engine>>

End ==
    /\ should_exit' = TRUE
    /\ UNCHANGED <<page, secret, passphrase, label, backup_type, generated_backup,
                   tasks, mailbox, engine_calls, user_creates, writes, saved, panicked, engine>>

\* update: each disjunct is one arm of the match, taken for a message the
\* screen emitted or a finished future produced
Next ==
    \/ \E m \in Emitted : m.kind = "SwitchPage" /\ SwitchPage(m.page)
    \/ \E m \in Emitted : m.kind = "SecretChanged" /\ SecretChanged(m.str)
    \/ \E m \in Emitted : m.kind = "PassphraseChanged" /\ PassphraseChanged(m.str)
    \/ \E m \in Emitted : m.kind = "GenerateSecret" /\ GenerateSecret
    \/ \E m \in Emitted : m.kind = "CreateBackup" /\ CreateBackup
    \/ \E m \in Emitted : m.kind = "LabelChanged" /\ LabelChanged(m.str)
    \/ \E m \in Emitted : m.kind = "BackupTypeChanged" /\ BackupTypeChanged(m.btype)
    \/ \E i \in 1..Len(tasks) : RunCreateTask(i)
    \/ \E i \in 1..Len(mailbox) : BackupCompleted(i)
    \/ \E m \in Emitted, file \in SaveOutcomes : m.kind = "SaveBackup" /\ SaveBackup(m.num, file)
    \/ \E m \in Emitted : m.kind = "End" /\ End

Spec == Init /\ [][Next]_vars

\* the executor runs every future it was handed, and the runtime delivers every
\* message a finished future produced
FairSpec ==
    /\ Spec
    /\ WF_vars(\E i \in 1..Len(tasks) : RunCreateTask(i))
    /\ WF_vars(\E i \in 1..Len(mailbox) : BackupCompleted(i))

(* ------------------------------------------- engine: field and splitter *)

\* exclusive or of two bytes, bit by bit
RECURSIVE xor_bits(_, _)
xor_bits(a, b) ==
    IF a = 0 THEN b
    ELSE IF b = 0 THEN a
    ELSE ((a + b) % 2) + 2 * xor_bits(a \div 2, b \div 2)

XorTable == [a \in 0..255 |-> [b \in 0..255 |-> xor_bits(a, b)]]

\* the addition of the field with 256 elements
xor(a, b) == XorTable[a][b]

\* multiplication by x, reduced by x^8 + x^4 + x^3 + x + 1
xtime(a) == IF 2 * a >= 256 THEN xor(2 * a - 256, 27) ELSE 2 * a

\* shift-and-add multiplication
RECURSIVE gf_mul_bits(_, _)
gf_mul_bits(a, b) ==
    IF b = 0 THEN 0
    ELSE xor(IF b % 2 = 1 THEN a ELSE 0, gf_mul_bits(xtime(a), b \div 2))

GFMulTable == [a \in 0..255 |-> [b \in 0..255 |-> gf_mul_bits(a, b)]]

\* multiplication in the field with 256 elements
gf_mul(a, b) == GFMulTable[a][b]

\* inverses of the differences of two share indices
GFInv == [a \in 1..(2 * MaxTotal + 1) |-> CHOOSE y \in 1..255 : gf_mul(y, a) = 1]

gf_div(a, b) == gf_mul(a, GFInv[b])

\* the bytes of a string
Code(c) == IF c = " " THEN 32 ELSE 97

Bytes(s) == [i \in 1..Len(s) |-> Code(s[i])]

\* the coefficient of x^k for byte position p, as the random source drew it
Coefficient(rand, p, k) == (rand * (7 * p + k + 1)) % 256

\* degree with one coefficient too many
degree_OneMore(required) == required

\* the degree of the splitting polynomial
degree(required) == required - 1

\* the polynomial of one byte: constant term the byte, then the random coefficients
Polynomial(byte, rand, p, required) ==
    [k \in 0..degree(required) |-> IF k = 0 THEN byte ELSE Coefficient(rand, p, k)]

\* Horner evaluation at x of the coefficients from x^k upwards
RECURSIVE Horner(_, _, _)
Horner(poly, k, x) ==
    IF k \notin DOMAIN poly THEN 0
    ELSE xor(poly[k], gf_mul(Horner(poly, k + 1, x), x))

Evaluate(poly, x) == Horner(poly, 0, x)

\* split(bytes, required, total): share i holds every byte's polynomial at x = i
split(bytes, required, total, rand) ==
    [i \in 1..total |->
        [p \in 1..Len(bytes) |-> Evaluate(Polynomial(bytes[p], rand, p, required), i)]]

\* product over the other points j of x_j / (x_j - x_i): the Lagrange basis at 0
RECURSIVE Basis(_, _, _)
Basis(xs, i, j) ==
    IF j = 0 THEN 1
    ELSE IF j = i THEN Basis(xs, i, j - 1)
    ELSE gf_mul(Basis(xs, i, j - 1), gf_div(xs[j], xor(xs[j], xs[i])))

\* Lagrange interpolation at x = 0: the sum over the points of basis * y
RECURSIVE Interpolate(_, _, _)
Interpolate(basis, ys, n) ==
    IF n = 0 THEN 0
    ELSE xor(gf_mul(basis[n], ys[n]), Interpolate(basis, ys, n - 1))

\* combine(shares): every byte position interpolated from the shares given
combine(xs, datas) ==
    LET basis == [i \in 1..Len(xs) |-> Basis(xs, i, Len(xs))]
    IN [p \in 1..Len(datas[1]) |->
          Interpolate(basis, [i \in 1..Len(datas) |-> datas[i][p]], Len(xs))]

(* ------------------------------------- engine: key, cipher, orchestrator *)

RECURSIVE FoldXor(_)
FoldXor(bs) == IF bs = <<>> THEN 0 ELSE xor(Head(bs), FoldXor(Tail(bs)))

\* KeyDeriver: the same passphrase and salt give the same key
derive(password, salt) == xor(gf_mul(xor(FoldXor(Bytes(password)), Len(password)), 3), salt)

KeyStream(key, nonce, p) == xor(key, (nonce + p) % 256)

\* the authentication tag over key, nonce and ciphertext
Mac(key, nonce, ciphertext) ==
    xor(xor(gf_mul(key, 2), nonce), xor(FoldXor(ciphertext), Len(ciphertext)))

\* Cipher: encrypt(key, plaintext) -> (nonce, ciphertext, tag)
encrypt(key, plaintext, nonce) ==
    LET ciphertext == [p \in 1..Len(plaintext) |-> xor(plaintext[p], KeyStream(key, nonce, p))]
    IN [nonce |-> nonce, ciphertext |-> ciphertext, tag |-> Mac(key, nonce, ciphertext)]

\* Cipher: decrypt(key, nonce, ciphertext, tag) -> plaintext | AuthFailure
decrypt(key, nonce, ciphertext, tag) ==
    IF Mac(key, nonce, ciphertext) # tag
      THEN [ok |-> FALSE, err |-> "AuthenticationFailure", value |-> <<>>]
      ELSE [ok |-> TRUE, err |-> "none",
            value |-> [p \in 1..Len(ciphertext) |-> xor(ciphertext[p], KeyStream(key, nonce, p))]]

\* the payload that is split: salt + nonce + ciphertext + tag, packed
Pack(salt, e) == <<salt, e.nonce>> \o e.ciphertext \o <<e.tag>>

Unpack(payload) ==
    [salt |-> payload[1], nonce |-> payload[2],
     ciphertext |-> SubSeq(payload, 3, Len(payload) - 1), tag |-> payload[Len(payload)]]

\* the salt and the nonce the random source drew
Salt(rand) == (3 * rand + 1) % 256

Nonce(rand) == (5 * rand + 2) % 256

\* create_backup with the share data: validate, derive, encrypt, pack, split
create_backup_shares(value, password, config, rand) ==
    IF ~ValidConfig(config) THEN Err("InvalidConfig")
    ELSE IF is_empty(value) \/ is_empty(password) THEN Err("EmptyInput")
    ELSE LET payload == Pack(Salt(rand),
                             encrypt(derive(password, Salt(rand)), value, Nonce(rand)))
             parts == split(payload, config.required_shares, config.num_shares, rand)
         IN Ok([i \in 1..config.num_shares |->
                   [number |-> i, required |-> config.required_shares,
                    total |-> config.num_shares, data |-> parts[i]]])

\* the shares agree on the scheme and the payload length, and carry distinct
\* numbers in range
ConsistentShares(shares) ==
    /\ \A i, j \in 1..Len(shares) :
        /\ shares[i].required = shares[j].required
        /\ shares[i].total = shares[j].total
        /\ Len(shares[i].data) = Len(shares[j].data)
        /\ i # j => shares[i].number # shares[j].number
    /\ \A i \in 1..Len(shares) : shares[i].number \in 1..shares[i].total

RestoreErr(e) == [ok |-> FALSE, err |-> e, value |-> <<>>]

\* restore_backup(shares, passphrase): check, combine, decrypt
restore_backup(shares, password) ==
    IF shares = <<>> THEN RestoreErr("InsufficientShares")
    ELSE IF ~ConsistentShares(shares) THEN RestoreErr("InconsistentShares")
    ELSE IF Len(shares) < shares[1].required THEN RestoreErr("InsufficientShares")
    ELSE LET payload == combine([i \in 1..Len(shares) |-> shares[i].number],
                                [i \in 1..Len(shares) |-> shares[i].data])
             u == Unpack(payload)
         IN decrypt(derive(password, u.salt), u.nonce, u.ciphertext, u.tag)

(* ------------------------------------------------ engine: one round trip *)

EngineStrings == {s \in StringsUpTo(MaxValueLen) : ~is_empty(s)}

EngineConfigs ==
    {c \in [required_shares : 1..MaxTotal, num_shares : 1..MaxTotal] : ValidConfig(c)}

\* every choice of distinct shares of a backup of n shares, in every order
Picks(n) ==
    UNION {{q \in [1..k -> 1..n] : \A i, j \in 1..k : i # j => q[i] # q[j]} : k \in 0..n}

EngineInit ==
    /\ AppInit
    /\ \E v \in EngineStrings, pw \in EngineStrings, c \in EngineConfigs, r \in 0..MaxRand :
         engine = [EngineIdle EXCEPT !.phase = "input", !.value = Bytes(v),
                                     !.password = pw, !.config = c, !.rand = r]

app_vars == <<page, secret, passphrase, label, backup_type, generated_backup, should_exit,
              tasks, mailbox, engine_calls, user_creates, writes, saved, panicked>>

EngineCreate ==
    /\ engine.phase = "input"
    /\ LET r == create_backup_shares(engine.value, engine.password, engine.config,
                                     engine.rand)
       IN engine' = [engine EXCEPT !.phase = IF r.ok THEN "created" ELSE "failed",
                                   !.shares = r.shares]
    /\ UNCHANGED app_vars

EngineRestore(picked) ==
    /\ engine.phase = "created"
    /\ engine' = [engine EXCEPT
                    !.phase = "restored",
                    !.picked = picked,
                    !.outcome = restore_backup(
                        [k \in 1..Len(picked) |-> engine.shares[picked[k]]],
                        engine.password)]
    /\ UNCHANGED app_vars

EngineNext ==
    \/ EngineCreate
    \/ \E picked \in Picks(MaxTotal) :
         /\ \A k \in 1..Len(picked) : picked[k] <= Len(engine.shares)
         /\ EngineRestore(picked)

\* the engine on its own: inputs drawn, create_backup applied, then
\* restore_backup applied to a choice of the shares
EngineSpec == EngineInit /\ [][EngineNext]_vars

(* ---------------------------------------------------------------- claims *)

Calls == {engine_calls[i] : i \in 1..Len(engine_calls)}

SaveMessages == {m \in view : m.kind = "SaveBackup"}

\* C1 (as stated): every BackupConfig passed to create_backup satisfies
\* 2 <= required_shares <= num_shares <= 255.
C1_ConfigInThresholdRange ==
    \A c \in Calls :
        /\ 2 <= c.config.required_shares
        /\ c.config.required_shares <= c.config.num_shares
        /\ c.config.num_shares <= 255

\* C1 (amended): every BackupConfig passed to create_backup satisfies
\* 1 <= required_shares <= num_shares <= 255; required_shares is at least 2
\* for every Distributed entry, and Standard is passed as 1 of 1.
C1_ConfigInRange ==
    \A c \in Calls :
        /\ 1 <= c.config.required_shares
        /\ c.config.required_shares <= c.config.num_shares
        /\ c.config.num_shares <= 255
        /\ c.backup_type.kind = "Distributed" => 2 <= c.config.required_shares
        /\ c.backup_type.kind = "Standard" => c.config = BackupConfig(1, 1)

C1_Witness ==
    \E c \in Calls : c.backup_type = Distributed(4, 7) /\ c.config = BackupConfig(4, 7)

\* C2: the secret value and the passphrase passed to create_backup are both
\* non-empty (and non-blank), and the CreateBackup message is emitted only by
\* the create page while the secret and the passphrase in state are non-blank.
C2_NonEmptyInputs ==
    /\ \A c \in Calls :
        /\ ~is_empty(c.value) /\ ~is_empty(trim(c.value))
        /\ ~is_empty(c.password) /\ ~is_empty(trim(c.password))
    /\ \A i \in 1..Len(tasks) :
        ~is_empty(tasks[i].secret) /\ ~is_empty(tasks[i].passphrase)
    /\ MsgCreateBackup \in Emitted =>
        /\ page = "CreateBackup"
        /\ ~is_empty(trim(secret))
        /\ ~is_empty(trim(passphrase))

C2_Witness ==
    \E c \in Calls : c.value # trim(c.value) /\ c.password # trim(c.password)

\* C3 (as stated): once BackupCompleted has been processed and the page is
\* BackupResults, the state no longer retains the secret or its passphrase.
C3_SecretNotRetained ==
    page = "BackupResults" => is_empty(secret) /\ is_empty(passphrase)

\* C4: the page becomes BackupGenerating only from CreateBackup, and becomes
\* BackupResults only from BackupGenerating.
C4_PageOrder ==
    [][/\ (page' = "BackupGenerating" /\ page # "BackupGenerating") => page = "CreateBackup"
       /\ (page' = "BackupResults" /\ page # "BackupResults") => page = "BackupGenerating"]_vars

C4_Witness ==
    page = "BackupResults" /\ user_creates = 1 /\ should_exit

\* C5: after BackupCompleted, generated_backup is None (the call failed, no Save
\* action is offered) or the complete list of the num_shares shares the call
\* returned (one Save action per share), never a strict subset.
C5_AllOrNothing ==
    page = "BackupResults" =>
        /\ Len(engine_calls) > 0
        /\ LET c == engine_calls[Len(engine_calls)]
           IN IF c.result.ok
                THEN /\ generated_backup = Some(c.result.shares)
                     /\ Len(generated_backup.shares) = c.config.num_shares
                     /\ Cardinality(SaveMessages) = c.config.num_shares
                ELSE /\ generated_backup = None
                     /\ SaveMessages = {}

C5_Witness ==
    /\ page = "BackupResults"
    /\ generated_backup.some
    /\ Len(generated_backup.shares) = 7
    /\ Cardinality(SaveMessages) = 7

\* C6: between CreateBackup and BackupCompleted the page is BackupGenerating,
\* that page emits no user message, and the only step that leaves it is
\* BackupCompleted.
C6_NoCancel ==
    /\ [](page = "BackupGenerating" <=> Len(tasks) + Len(mailbox) > 0)
    /\ [](page = "BackupGenerating" => Emitted = {})
    /\ [][(page = "BackupGenerating" /\ page' # page) =>
            /\ page' = "BackupResults"
            /\ writes' = writes + 1
            /\ Len(mailbox') = Len(mailbox) - 1]_vars

C6_Witness ==
    page = "BackupGenerating" /\ Len(mailbox) = 1 /\ tasks = <<>>

\* C7: whenever the page is BackupGenerating it eventually becomes
\* BackupResults, whether create_backup succeeds or fails.
C7_Outcome ==
    (page = "BackupGenerating") ~> (page = "BackupResults")

C7_Witness ==
    /\ page = "BackupResults"
    /\ \E c \in Calls : ~c.result.ok
    /\ \E i \in 1..Len(engine_calls) : engine_calls[i].backup_type = Distributed(3, 5)

\* C8: on page RestoreBackup the screen shown is the welcome screen, from which
\* the CreateBackup page can be opened; RestoreBackup is opened from Welcome;
\* and no call other than create_backup is ever made into the engine.
C8_RestoreNotWired ==
    /\ page = "Welcome" => MsgSwitchPage("RestoreBackup") \in Emitted
    /\ page = "RestoreBackup" =>
        /\ screen_of(page) = "welcome_page"
        /\ Emitted = welcome_page
        /\ MsgSwitchPage("CreateBackup") \in Emitted
    /\ \A c \in Calls : c.fn = "create_backup"

C8_Witness ==
    page = "RestoreBackup" /\ MsgSwitchPage("CreateBackup") \in Emitted /\ ~is_empty(secret)

\* C9: Standard is created with required_shares = 1 and num_shares = 1, which is
\* not rejected as InvalidConfig and yields exactly one share on success;
\* Distributed{min,max} is created with required_shares = min, num_shares = max.
C9_StandardOneOfOne ==
    \A c \in Calls :
        /\ c.backup_type.kind = "Standard" =>
            /\ c.config = BackupConfig(1, 1)
            /\ c.result.err # "InvalidConfig"
            /\ c.result.ok => Len(c.result.shares) = 1
        /\ c.backup_type.kind = "Distributed" =>
            c.config = BackupConfig(c.backup_type.min, c.backup_type.max)

C9_Witness ==
    /\ \E c \in Calls : c.backup_type = Standard /\ c.result.ok
    /\ page = "BackupResults"
    /\ Len(generated_backup.shares) = 1

\* C10: every create_backup call is caused by exactly one CreateBackup message,
\* at most one call is in flight, and generated_backup is written at most once.
C10_NoRetryNoOverlap ==
    /\ Len(tasks) + Len(engine_calls) = user_creates
    /\ Len(tasks) + Len(mailbox) <= 1
    /\ writes + Len(mailbox) = Len(engine_calls)
    /\ writes <= 1

C10_Witness ==
    /\ page = "BackupResults"
    /\ generated_backup = None
    /\ writes = 1
    /\ Len(engine_calls) = 1
    /\ tasks = <<>>
    /\ mailbox = <<>>

\* C11: whenever SaveBackup(num) is processed generated_backup is Some and
\* exactly one of its shares has number num, so neither the unwrap nor the
\* expect fails; the share rendered is that one, and the total handed to the
\* renderer is the number of shares of the backup.  (A panic can then come
\* only from the renderer or the file system, after the share was resolved.)
C11_SaveResolvesShare ==
    /\ panicked => saved.done /\ ~saved.written
    /\ \A m \in SaveMessages :
        /\ generated_backup.some
        /\ Cardinality({i \in 1..Len(generated_backup.shares) :
                           generated_backup.shares[i].number = m.num}) = 1
    /\ saved.done =>
        /\ generated_backup.some
        /\ saved.number = saved.asked
        /\ Cardinality({i \in 1..Len(generated_backup.shares) :
                           generated_backup.shares[i].number = saved.asked}) = 1
        /\ saved.total = Len(generated_backup.shares)
        /\ saved.label = label

C11_Witness ==
    saved.done /\ saved.asked = 7 /\ saved.total = 7 /\ ~is_empty(saved.label)

\* C13: create_backup is called with the secret, passphrase and backup type
\* held in state when CreateBackup is processed, and from then on (pages
\* BackupGenerating and BackupResults) secret, passphrase, backup_type and
\* label do not change, so the results page shows a backup of the state's inputs.
C13_ResultOfCurrentInputs ==
    /\ [](\A i \in 1..Len(tasks) :
            /\ tasks[i].secret = secret
            /\ tasks[i].passphrase = passphrase
            /\ tasks[i].backup_type = backup_type)
    /\ [](\A c \in Calls :
            /\ c.value = secret
            /\ c.password = passphrase
            /\ c.backup_type = backup_type)
    /\ [][user_creates' # user_creates =>
            /\ Len(tasks') = Len(tasks) + 1
            /\ tasks'[Len(tasks')] = [backup_type |-> backup_type, secret |-> secret,
                                      passphrase |-> passphrase]]_vars
    /\ [][(page \in {"BackupGenerating", "BackupResults"}) =>
            (UNCHANGED <<secret, passphrase, backup_type, label>>)]_vars

C13_Witness ==
    /\ page = "BackupResults"
    /\ generated_backup.some
    /\ \E c \in Calls : c.value = secret /\ c.password = passphrase /\ c.value # c.password
    /\ backup_type = Distributed(2, 3)
    /\ ~is_empty(label)

\* C14: SecretChanged changes only secret, PassphraseChanged and GenerateSecret
\* change only passphrase, LabelChanged changes only label, BackupTypeChanged
\* changes only backup_type; each leaves page, generated_backup, should_exit and
\* every other field as it was and hands no future to the executor.
C14_InputFrame ==
    [][/\ \A s \in Strings : SecretChanged(s) =>
            /\ secret' = s
            /\ UNCHANGED <<page, passphrase, label, backup_type, generated_backup,
                           should_exit, tasks, mailbox, panicked>>
       /\ \A s \in Strings : PassphraseChanged(s) =>
            /\ passphrase' = s
            /\ UNCHANGED <<page, secret, label, backup_type, generated_backup,
                           should_exit, tasks, mailbox, panicked>>
       /\ GenerateSecret =>
            UNCHANGED <<page, secret, label, backup_type, generated_backup,
                        should_exit, tasks, mailbox, panicked>>
       /\ \A s \in Labels : LabelChanged(s) =>
            /\ label' = s
            /\ UNCHANGED <<page, secret, passphrase, backup_type, generated_backup,
                           should_exit, tasks, mailbox, panicked>>
       /\ \A b \in BackupType_ALL : BackupTypeChanged(b) =>
            /\ backup_type' = b
            /\ UNCHANGED <<page, secret, passphrase, label, generated_backup,
                           should_exit, tasks, mailbox, panicked>>]_vars

C14_Witness ==
    /\ page = "CreateBackup"
    /\ ~is_empty(secret)
    /\ ~is_empty(passphrase)
    /\ ~is_empty(label)
    /\ backup_type = Distributed(3, 5)
    /\ generated_backup = None
    /\ tasks = <<>>
    /\ ~should_exit

\* C15: should_exit is false initially, becomes true only when End is
\* processed, End is emitted only on the BackupResults page (so should_exit
\* implies page = BackupResults), and once true it is never false again.
C15_ExitOnlyAfterBackup ==
    /\ ~should_exit
    /\ [](should_exit => page = "BackupResults")
    /\ [](MsgEnd \in Emitted => page = "BackupResults")
    /\ [][(~should_exit /\ should_exit') => (MsgEnd \in Emitted /\ End)]_vars
    /\ [][should_exit => should_exit']_vars

C15_Witness ==
    should_exit /\ page = "BackupResults" /\ saved.written /\ generated_backup.some

\* C12: restore_backup applied to exactly 'required' distinct shares of
\* create_backup(secret, config), in any order and with the original
\* passphrase, returns the original secret; applied to fewer than 'required'
\* shares it returns InsufficientShares and no value.
C12_RoundTrip ==
    engine.phase = "restored" =>
        /\ Len(engine.picked) = engine.config.required_shares =>
            engine.outcome = [ok |-> TRUE, err |-> "none", value |-> engine.value]
        /\ Len(engine.picked) < engine.config.required_shares =>
            engine.outcome = RestoreErr("InsufficientShares")

C12_Witness ==
    /\ engine.phase = "restored"
    /\ engine.config = BackupConfig(2, 3)
    /\ engine.rand = 1
    /\ engine.picked = <<3, 1>>
    /\ engine.outcome.ok
    /\ engine.outcome.value = engine.value

====
